---- MODULE Spec2Model ----
(***************************************************************************)
(* A model of scripts/seq_utils.py: FASTA table I/O, the alphanumeric      *)
(* residue-index decoder, the mutation table, and the remapping of a       *)
(* structure's chains (and of per-residue annotation tables) onto a target *)
(* sequence.  Strings are sequences of one-character strings.              *)
(***************************************************************************)
EXTENDS Integers, Sequences, FiniteSets, TLC

VARIABLES pc,
          fa_table, outfile, ali,
          n, L1, L2, numeric,
          seq, alpha, samples,
          structure, chain_list, target_seq, resis, alns, map_tables, map_table,
          exc, struct_df, ranked, out_df

vars == <<pc, fa_table, outfile, ali, n, L1, L2, numeric, seq, alpha, samples,
          structure, chain_list, target_seq, resis, alns, map_tables, map_table,
          exc, struct_df, ranked, out_df>>

fastaVars == <<fa_table, outfile, ali>>
decodeVars == <<n, L1, L2, numeric>>
mutVars == <<seq, alpha, samples>>
remapVars == <<structure, chain_list, target_seq, resis, alns, map_tables, map_table,
               exc, struct_df, ranked, out_df>>

----------------------------------------------------------------------------
(* Character classes of Python's str methods, on the characters used here. *)

ascii_uppercase ==
    <<"A","B","C","D","E","F","G","H","I","J","K","L","M",
      "N","O","P","Q","R","S","T","U","V","W","X","Y","Z">>

ascii_lowercase ==
    <<"a","b","c","d","e","f","g","h","i","j","k","l","m",
      "n","o","p","q","r","s","t","u","v","w","x","y","z">>

digits == <<"0","1","2","3","4","5","6","7","8","9">>

Range(s) == {s[k] : k \in 1..Len(s)}

IndexOf(s, c) == CHOOSE k \in 1..Len(s) : s[k] = c

DigitChars == Range(digits)

AlphaLetters == Range(ascii_uppercase) \cup Range(ascii_lowercase)

IsSpace(c) == c \in {" ", "\n", "\t", "\r"}

Upper(c) == IF c \in Range(ascii_lowercase)
            THEN ascii_uppercase[IndexOf(ascii_lowercase, c)]
            ELSE c

RECURSIVE UpperStr(_)
UpperStr(s) == IF s = <<>> THEN <<>> ELSE <<Upper(Head(s))>> \o UpperStr(Tail(s))

(* ''.join(c for c in s if c in S) *)
RECURSIVE Filter(_, _)
Filter(s, S) ==
    IF s = <<>> THEN <<>>
    ELSE (IF Head(s) \in S THEN <<Head(s)>> ELSE <<>>) \o Filter(Tail(s), S)

RECURSIVE Concat(_)
Concat(ss) == IF ss = <<>> THEN <<>> ELSE Head(ss) \o Concat(Tail(ss))

(* All sequences over S of length at most m. *)
SeqsUpTo(S, m) == UNION {[1..k -> S] : k \in 0..m}

(* str(int): an optional minus sign and the decimal digits. *)
RECURSIVE NatStr(_)
NatStr(m) == IF m < 10 THEN <<digits[m + 1]>>
             ELSE NatStr(m \div 10) \o <<digits[(m % 10) + 1]>>

Str(m) == IF m < 0 THEN <<"-">> \o NatStr(-m) ELSE NatStr(m)

(* int(s) of a non-empty string of digits. *)
RECURSIVE IntOf(_)
IntOf(s) == IF s = <<>> THEN 0
            ELSE 10 * IntOf(SubSeq(s, 1, Len(s) - 1)) + (IndexOf(digits, s[Len(s)]) - 1)

----------------------------------------------------------------------------
(* alphanumeric_index_to_numeric_index.  The result is kept in hundredths: *)
(* the default table maps the i-th uppercase letter to i/100.              *)

alpha_to_numeric(a) ==
    IF Len(a) = 1 /\ a[1] \in Range(ascii_uppercase)
    THEN [err |-> "none", val |-> IndexOf(ascii_uppercase, a[1])]
    ELSE [err |-> "KeyError", val |-> 0]

alphanumeric_index_to_numeric_index(label) ==
    LET n0 == Filter(label, DigitChars)
        n1 == Filter(label, AlphaLetters)
    IN  IF n0 = <<>> THEN [err |-> "TypeError", val |-> 0]
        ELSE IF n1 # <<>>
             THEN LET off == alpha_to_numeric(UpperStr(n1))
                  IN  IF off.err # "none" THEN off
                      ELSE [err |-> "none", val |-> 100 * IntOf(n0) + off.val]
             ELSE [err |-> "none", val |-> 100 * IntOf(n0)]

MaxN == 11

DecodeLabels == <<Str(n), Str(n) \o <<L1>>, Str(n) \o <<L2>>, Str(n + 1)>>

Decode ==
    /\ pc = "decode"
    /\ numeric' = [k \in 1..4 |-> alphanumeric_index_to_numeric_index(DecodeLabels[k])]
    /\ pc' = "decoded"
    /\ UNCHANGED <<n, L1, L2, fastaVars, mutVars, remapVars>>

----------------------------------------------------------------------------
(* make_mut_table *)

alphabet == <<"A","C","D","E","F","G","H","I","K","L",
              "M","N","P","Q","R","S","T","V","W","Y">>

RECURSIVE MutRowsCaseSensitive(_, _, _)
MutRowsCaseSensitive(i, old, alph) ==
    IF alph = <<>> THEN <<>>
    ELSE (IF Head(alph) # old
          THEN <<[i |-> i, wt |-> Upper(old), mut |-> Upper(Head(alph))]>>
          ELSE <<>>) \o MutRowsCaseSensitive(i, old, Tail(alph))

RECURSIVE MutRows(_, _, _)
MutRows(i, old, alph) ==
    IF alph = <<>> THEN <<>>
    ELSE (IF Upper(Head(alph)) # Upper(old)
          THEN <<[i |-> i, wt |-> Upper(old), mut |-> Upper(Head(alph))]>>
          ELSE <<>>) \o MutRows(i, old, Tail(alph))

make_mut_table(s, alph) == Concat([i \in 1..Len(s) |-> MutRows(i, s[i], alph)])

MakeMutTable ==
    /\ pc = "mut"
    /\ samples' = make_mut_table(seq, alpha)
    /\ pc' = "mutdone"
    /\ UNCHANGED <<seq, alpha, fastaVars, decodeVars, remapVars>>

----------------------------------------------------------------------------
(* write_fa and fa_to_pd.  A file is the string of its characters.  None   *)
(* is Python's None, which no string equals.                               *)

None == <<"None">>

RECURSIVE rstrip(_)
rstrip(s) == IF s # <<>> /\ IsSpace(s[Len(s)])
             THEN rstrip(SubSeq(s, 1, Len(s) - 1))
             ELSE s

startswith(s, c) == s # <<>> /\ s[1] = c

(* Iterating a text file: each line ends with its newline, the last one    *)
(* only when the file does.                                                *)
RECURSIVE SplitLines(_, _)
SplitLines(f, cur) ==
    IF f = <<>> THEN (IF cur = <<>> THEN <<>> ELSE <<cur>>)
    ELSE IF Head(f) = "\n" THEN <<cur \o <<"\n">>>> \o SplitLines(Tail(f), <<>>)
    ELSE SplitLines(Tail(f), cur \o <<Head(f)>>)

RECURSIVE write_rows(_)
write_rows(rows) ==
    IF rows = <<>> THEN <<>>
    ELSE <<">">> \o Head(rows).header \o <<"\n">>
         \o Head(rows).Sequence \o <<"\n">>
         \o write_rows(Tail(rows))

write_fa(table) == write_rows(table)

RECURSIVE read_fasta_unstripped(_, _, _)
read_fasta_unstripped(lines, current_id, current_sequence) ==
    IF lines = <<>>
    THEN <<[header |-> current_id, Sequence |-> current_sequence]>>
    ELSE LET line == Head(lines)
         IN  IF startswith(line, ">")
             THEN (IF current_id # None
                   THEN <<[header |-> current_id, Sequence |-> current_sequence]>>
                   ELSE <<>>)
                  \o read_fasta_unstripped(Tail(lines), Tail(line), <<>>)
             ELSE IF ~startswith(line, ";")
             THEN read_fasta_unstripped(Tail(lines), current_id,
                                        current_sequence \o line)
             ELSE read_fasta_unstripped(Tail(lines), current_id, current_sequence)

(* evcouplings' read_fasta generator, as consumed by the loop of fa_to_pd. *)
RECURSIVE read_fasta(_, _, _)
read_fasta(lines, current_id, current_sequence) ==
    IF lines = <<>>
    THEN <<[header |-> current_id, Sequence |-> current_sequence]>>
    ELSE LET line == Head(lines)
         IN  IF startswith(line, ">")
             THEN (IF current_id # None
                   THEN <<[header |-> current_id, Sequence |-> current_sequence]>>
                   ELSE <<>>)
                  \o read_fasta(Tail(lines), Tail(rstrip(line)), <<>>)
             ELSE IF ~startswith(line, ";")
             THEN read_fasta(Tail(lines), current_id,
                             current_sequence \o rstrip(line))
             ELSE read_fasta(Tail(lines), current_id, current_sequence)

fa_to_pd(f) == read_fasta(SplitLines(f, <<>>), None, <<>>)

WriteFa ==
    /\ pc = "write"
    /\ outfile' = write_fa(fa_table)
    /\ pc' = "written"
    /\ UNCHANGED <<fa_table, ali, decodeVars, mutVars, remapVars>>

FaToPd ==
    /\ pc = "written"
    /\ ali' = fa_to_pd(outfile)
    /\ pc' = "read"
    /\ UNCHANGED <<fa_table, outfile, decodeVars, mutVars, remapVars>>

----------------------------------------------------------------------------
(* The structure: Bio.PDB residues in file order.  A residue has its name  *)
(* as written in the file, its number, its insertion code (" " when none)  *)
(* and its chain.                                                          *)

(* Bio.Data.SCOPData.protein_letters_3to1, on the residue names used here. *)
protein_letters_3to1 ==
    { [k |-> <<"M","E","T">>, v |-> "M"],
      [k |-> <<"L","Y","S">>, v |-> "K"] }

Keys3to1 == {e.k : e \in protein_letters_3to1}

Lookup3to1(name) == (CHOOSE e \in protein_letters_3to1 : e.k = name).v

is_aa_any(residue) == TRUE

(* Bio.PDB.is_aa(residue), standard=False: the upper-cased residue name is *)
(* a key of protein_letters_3to1.                                          *)
is_aa(residue) == UpperStr(residue.resname) \in Keys3to1

RECURSIVE lstrip(_)
lstrip(s) == IF s # <<>> /\ IsSpace(s[1]) THEN lstrip(Tail(s)) ELSE s

strip(s) == lstrip(rstrip(s))

(* The loop over structure.get_residues(): the rows of output_list, or the *)
(* KeyError of the first residue that passes is_aa and is no key.          *)
RECURSIVE output_list(_, _)
output_list(residues, i) ==
    IF residues = <<>> THEN [err |-> "none", rows |-> <<>>]
    ELSE LET residue == Head(residues)
             rest == output_list(Tail(residues), i + 1)
         IN  IF is_aa(residue)
             THEN IF residue.resname \notin Keys3to1
                  THEN [err |-> "KeyError", rows |-> <<>>]
                  ELSE IF rest.err # "none" THEN rest
                  ELSE [err |-> "none",
                        rows |-> <<[pdb_res |-> Lookup3to1(residue.resname),
                                    pdb_position |-> Str(residue.id) \o strip(residue.icode),
                                    chain |-> residue.chain,
                                    ind |-> i]>> \o rest.rows]
             ELSE rest

(* df[df.chain.isin(chains)] *)
RECURSIVE chain_isin(_, _)
chain_isin(rows, chains) ==
    IF rows = <<>> THEN <<>>
    ELSE (IF Head(rows).chain \in Range(chains) THEN <<Head(rows)>> ELSE <<>>)
         \o chain_isin(Tail(rows), chains)

(* df.sort_values(['chain', key]).groupby('chain').cumcount() for row k,   *)
(* key being the key column:                                               *)
(* the number of rows of the same chain that the (stable) sort puts before *)
(* row k.                                                                  *)
cumcount(rows, key, k) ==
    Cardinality({j \in 1..Len(rows) :
                    /\ rows[j].chain = rows[k].chain
                    /\ \/ key[j] < key[k]
                       \/ key[j] = key[k] /\ j < k})

cumcount_ungrouped(rows, key, k) ==
    Cardinality({j \in 1..Len(rows) :
                    \/ key[j] < key[k]
                    \/ key[j] = key[k] /\ j < k})

KeyInd(rows) == [j \in 1..Len(rows) |-> rows[j].ind]

resis_pdb_i_ungrouped(rows, k) == cumcount_ungrouped(rows, KeyInd(rows), k) + 1

resis_pdb_i(rows, k) == cumcount(rows, KeyInd(rows), k) + 1

(* Lines 86-103: the residue table, or the exception raised on the way.    *)
extract_resis(struct, chains) ==
    LET out == output_list(struct, 0)
    IN  IF out.err # "none" THEN out
        ELSE IF out.rows = <<>> THEN [err |-> "AttributeError", rows |-> <<>>]
        ELSE LET kept == chain_isin(out.rows, chains)
             IN  [err |-> "none",
                  rows |-> [k \in 1..Len(kept) |->
                              [pdb_res |-> kept[k].pdb_res,
                               pdb_position |-> kept[k].pdb_position,
                               chain |-> kept[k].chain,
                               ind |-> kept[k].ind,
                               pdb_i |-> resis_pdb_i(kept, k)]]]

----------------------------------------------------------------------------
(* pairwise_align and remap_to_target_seq.                                 *)

(* BLOSUM62 on the residues used here. *)
blosum62(a, b) == IF a = b THEN 5 ELSE -1

(* An alignment lays the two sequences out in columns: "b" holds a residue *)
(* of both, "i" of the first only, "j" of the second only.                 *)
RECURSIVE Layouts(_, _)
Layouts(m, k) ==
    IF m = 0 /\ k = 0 THEN {<<>>}
    ELSE (IF m > 0 /\ k > 0 THEN {<<"b">> \o l : l \in Layouts(m - 1, k - 1)} ELSE {})
         \cup (IF m > 0 THEN {<<"i">> \o l : l \in Layouts(m - 1, k)} ELSE {})
         \cup (IF k > 0 THEN {<<"j">> \o l : l \in Layouts(m, k - 1)} ELSE {})

RECURSIVE Gapped(_, _, _)
Gapped(lay, s, own) ==
    IF lay = <<>> THEN <<>>
    ELSE IF Head(lay) \in {"b", own} THEN <<Head(s)>> \o Gapped(Tail(lay), Tail(s), own)
    ELSE <<"-">> \o Gapped(Tail(lay), s, own)

(* The alignments localds can return as alignments[0]: none when a         *)
(* sequence is empty or no pair of residues scores above zero (a local     *)
(* alignment must score above zero); otherwise both sequences in full,     *)
(* gapped to one length, with a pair of positive score aligned.            *)
localds(seq1, seq2) ==
    { a \in { <<Gapped(lay, seq1, "i"), Gapped(lay, seq2, "j")>> :
                lay \in Layouts(Len(seq1), Len(seq2)) } :
        \E c \in 1..Len(a[1]) :
            /\ a[1][c] # "-" /\ a[2][c] # "-"
            /\ blosum62(a[1][c], a[2][c]) > 0 }

(* pairwise_align: alignments[0] raises IndexError on an empty list. *)
pairwise_align(seq1, seq2) ==
    IF localds(seq1, seq2) = {}
    THEN {[err |-> "IndexError", aligned |-> <<>>]}
    ELSE {[err |-> "none", aligned |-> a] : a \in localds(seq1, seq2)}

NaN == -1

(* evcouplings' map_indices: one row per column, NaN on the gapped side.   *)
RECURSIVE map_indices(_, _, _, _)
map_indices(seq_i, pos_i, seq_j, pos_j) ==
    IF seq_i = <<>> \/ seq_j = <<>> THEN <<>>
    ELSE LET res_i == Head(seq_i)
             res_j == Head(seq_j)
             row == IF res_i # "-" /\ res_j # "-"
                    THEN <<[i |-> pos_i, A_i |-> res_i, j |-> pos_j, A_j |-> res_j]>>
                    ELSE IF res_i # "-"
                    THEN <<[i |-> pos_i, A_i |-> res_i, j |-> NaN, A_j |-> "NaN"]>>
                    ELSE IF res_j # "-"
                    THEN <<[i |-> NaN, A_i |-> "NaN", j |-> pos_j, A_j |-> res_j]>>
                    ELSE <<>>
         IN  row \o map_indices(Tail(seq_i), IF res_i # "-" THEN pos_i + 1 ELSE pos_i,
                                Tail(seq_j), IF res_j # "-" THEN pos_j + 1 ELSE pos_j)

remap_to_target_seq(aligned) == map_indices(aligned[1], 1, aligned[2], 1)

(* Lines 107-108: the chain's residues in file order. *)
RECURSIVE chain_seq(_, _)
chain_seq(rows, chain) ==
    IF rows = <<>> THEN <<>>
    ELSE (IF Head(rows).chain = chain THEN <<Head(rows).pdb_res>> ELSE <<>>)
         \o chain_seq(Tail(rows), chain)

RECURSIVE chain_map_table_keep_target_gaps(_, _)
chain_map_table_keep_target_gaps(rows, chain) ==
    IF rows = <<>> THEN <<>>
    ELSE (IF Head(rows).i # NaN
          THEN <<[pdb_i |-> Head(rows).i, pdb_res |-> Head(rows).A_i,
                  target_i |-> Head(rows).j, target_res |-> Head(rows).A_j,
                  chain |-> chain]>>
          ELSE <<>>) \o chain_map_table_keep_target_gaps(Tail(rows), chain)

(* Lines 110-120: rename, set the chain, drop the rows with a NaN index.   *)
RECURSIVE chain_map_table(_, _)
chain_map_table(rows, chain) ==
    IF rows = <<>> THEN <<>>
    ELSE (IF Head(rows).i # NaN /\ Head(rows).j # NaN
          THEN <<[pdb_i |-> Head(rows).i, pdb_res |-> Head(rows).A_i,
                  target_i |-> Head(rows).j, target_res |-> Head(rows).A_j,
                  chain |-> chain]>>
          ELSE <<>>) \o chain_map_table(Tail(rows), chain)

NoPosition == <<"NaN">>

(* map_table.merge(resis, how='left', on=['chain', 'pdb_i', 'pdb_res']):   *)
(* per left row, in order, one row per matching right row, or one row with *)
(* nulls when there is none.                                               *)
RECURSIVE merge_resis_row(_, _)
merge_resis_row(m, right) ==
    IF right = <<>> THEN <<>>
    ELSE (IF /\ Head(right).chain = m.chain
             /\ Head(right).pdb_i = m.pdb_i
             /\ Head(right).pdb_res = m.pdb_res
          THEN <<[pdb_i |-> m.pdb_i, pdb_res |-> m.pdb_res,
                  target_i |-> m.target_i, target_res |-> m.target_res,
                  chain |-> m.chain, pdb_position |-> Head(right).pdb_position]>>
          ELSE <<>>) \o merge_resis_row(m, Tail(right))

RECURSIVE merge_resis(_, _)
merge_resis(left, right) ==
    IF left = <<>> THEN <<>>
    ELSE LET m == Head(left)
             hits == merge_resis_row(m, right)
         IN  (IF hits = <<>>
              THEN <<[pdb_i |-> m.pdb_i, pdb_res |-> m.pdb_res,
                      target_i |-> m.target_i, target_res |-> m.target_res,
                      chain |-> m.chain, pdb_position |-> NoPosition]>>
              ELSE hits) \o merge_resis(Tail(left), right)

(* remap_pdb_seq_to_target_seq, lines 81-103. *)
ExtractResidues ==
    /\ pc = "extract"
    /\ LET r == extract_resis(structure, chain_list)
       IN  /\ resis' = r.rows
           /\ exc' = r.err
           /\ pc' = IF r.err = "none" THEN "align" ELSE "raised"
    /\ UNCHANGED <<structure, chain_list, target_seq, alns, map_tables, map_table,
                   struct_df, ranked, out_df, fastaVars, decodeVars, mutVars>>

(* One pass of the loop over chain_list, lines 106-121.  The aligner is a  *)
(* function of its arguments: a chain sequence aligned in an earlier pass  *)
(* aligns the same way again.                                              *)
AlignChain ==
    /\ pc = "align"
    /\ Len(map_tables) < Len(chain_list)
    /\ LET chain == chain_list[Len(map_tables) + 1]
           cs == chain_seq(resis, chain)
           earlier == {p \in 1..Len(map_tables) : chain_seq(resis, chain_list[p]) = cs}
       IN  \E al \in (IF earlier # {}
                      THEN {[err |-> "none", aligned |-> alns[CHOOSE p \in earlier : TRUE]]}
                      ELSE pairwise_align(cs, target_seq)) :
              IF al.err # "none"
              THEN /\ exc' = al.err
                   /\ pc' = "raised"
                   /\ UNCHANGED <<alns, map_tables>>
              ELSE /\ alns' = Append(alns, al.aligned)
                   /\ map_tables' = Append(map_tables,
                          chain_map_table(remap_to_target_seq(al.aligned), chain))
                   /\ UNCHANGED <<pc, exc>>
    /\ UNCHANGED <<structure, chain_list, target_seq, resis, map_table,
                   struct_df, ranked, out_df, fastaVars, decodeVars, mutVars>>

(* Lines 123-128: concatenate, join the position labels back, return.      *)
MergeResis ==
    /\ pc = "align"
    /\ Len(map_tables) = Len(chain_list)
    /\ map_table' = merge_resis(Concat(map_tables), resis)
    /\ pc' = "returned"
    /\ UNCHANGED <<structure, chain_list, target_seq, resis, alns, map_tables, exc,
                   struct_df, ranked, out_df, fastaVars, decodeVars, mutVars>>

(* remap_struct_df_to_target_seq.  An annotation row has its chain, its   *)
(* own position i and residue wt, and its annotation ann.                  *)
KeyI(rows) == [j \in 1..Len(rows) |-> rows[j].i]

struct_pdb_i(rows, k) == cumcount(rows, KeyI(rows), k) + 1

(* Lines 153-159: filter, index, rename. *)
rank_struct_df(df, chainlist) ==
    LET kept == chain_isin(df, chainlist)
    IN  [k \in 1..Len(kept) |->
            [chain |-> kept[k].chain,
             pdb_numbering |-> kept[k].i,
             pdb_res |-> kept[k].wt,
             ann |-> kept[k].ann,
             pdb_i |-> struct_pdb_i(kept, k)]]

(* Lines 160-164: the left join on ['chain', 'pdb_i', 'pdb_res'], pdb_i    *)
(* dropped, the target columns renamed to i and wt.                        *)
RECURSIVE merge_map_row(_, _)
merge_map_row(r, right) ==
    IF right = <<>> THEN <<>>
    ELSE (IF /\ Head(right).chain = r.chain
             /\ Head(right).pdb_i = r.pdb_i
             /\ Head(right).pdb_res = r.pdb_res
          THEN <<[chain |-> r.chain, pdb_numbering |-> r.pdb_numbering,
                  pdb_res |-> r.pdb_res, ann |-> r.ann,
                  i |-> Head(right).target_i, wt |-> Head(right).target_res,
                  pdb_position |-> Head(right).pdb_position]>>
          ELSE <<>>) \o merge_map_row(r, Tail(right))

RECURSIVE merge_map_inner(_, _)
merge_map_inner(left, right) ==
    IF left = <<>> THEN <<>>
    ELSE merge_map_row(Head(left), right) \o merge_map_inner(Tail(left), right)

RECURSIVE merge_map(_, _)
merge_map(left, right) ==
    IF left = <<>> THEN <<>>
    ELSE LET r == Head(left)
             hits == merge_map_row(r, right)
         IN  (IF hits = <<>>
              THEN <<[chain |-> r.chain, pdb_numbering |-> r.pdb_numbering,
                      pdb_res |-> r.pdb_res, ann |-> r.ann,
                      i |-> NaN, wt |-> "NaN", pdb_position |-> NoPosition]>>
              ELSE hits) \o merge_map(Tail(left), right)

remap_struct_df_to_target_seq(df, chainlist, mt) ==
    merge_map(rank_struct_df(df, chainlist), mt)

MaxAnn == 2
AnnChains == {"A", "B"}
AnnPositions == {1, 2}
AnnResidues == {"M", "K"}

StructDfs ==
    { [k \in 1..Len(t) |-> [chain |-> t[k][1], i |-> t[k][2], wt |-> t[k][3], ann |-> k]] :
        t \in SeqsUpTo(AnnChains \X AnnPositions \X AnnResidues, MaxAnn) }

(* The call is made with the chain list and the returned table of the     *)
(* remap_pdb_seq_to_target_seq call before it.                             *)
RemapStructDf ==
    /\ pc = "returned"
    /\ \E df \in StructDfs :
          /\ struct_df' = df
          /\ ranked' = rank_struct_df(df, chain_list)
          /\ out_df' = remap_struct_df_to_target_seq(df, chain_list, map_table)
    /\ pc' = "annotated"
    /\ UNCHANGED <<structure, chain_list, target_seq, resis, alns, map_tables, map_table,
                   exc, fastaVars, decodeVars, mutVars>>

----------------------------------------------------------------------------
(* Inputs. *)

MaxRecs == 2

HeaderStrings == { <<>>, <<"h">>, <<" ", "h">>, <<"h", " ">>, <<"h", "\n", "h">> }

SequenceStrings == { <<>>, <<"A">>, <<"A", " ">>, <<" ", "A">>, <<";", "A">>,
               <<"A", "\n", "A">> }

Records == [header : HeaderStrings, Sequence : SequenceStrings]

MaxSeqLen == 3
MaxAlpha == 3
SeqChars == {"A", "a", "C", "D"}
AlphaChars == {"A", "a", "C", "c"}

InitFasta ==
    /\ pc = "write"
    /\ fa_table \in SeqsUpTo(Records, MaxRecs)
    /\ outfile = <<>> /\ ali = <<>>
    /\ n = 0 /\ L1 = "A" /\ L2 = "B" /\ numeric = <<>>
    /\ seq = <<>> /\ alpha = <<>> /\ samples = <<>>
    /\ structure = <<>> /\ chain_list = <<>> /\ target_seq = <<>> /\ resis = <<>>
    /\ alns = <<>> /\ map_tables = <<>> /\ map_table = <<>>
    /\ exc = "none" /\ struct_df = <<>> /\ ranked = <<>> /\ out_df = <<>>

InitDecode ==
    /\ pc = "decode"
    /\ n \in (-MaxN)..MaxN
    /\ L1 \in Range(ascii_uppercase)
    /\ L2 \in Range(ascii_uppercase)
    /\ IndexOf(ascii_uppercase, L1) < IndexOf(ascii_uppercase, L2)
    /\ numeric = <<>>
    /\ fa_table = <<>> /\ outfile = <<>> /\ ali = <<>>
    /\ seq = <<>> /\ alpha = <<>> /\ samples = <<>>
    /\ structure = <<>> /\ chain_list = <<>> /\ target_seq = <<>> /\ resis = <<>>
    /\ alns = <<>> /\ map_tables = <<>> /\ map_table = <<>>
    /\ exc = "none" /\ struct_df = <<>> /\ ranked = <<>> /\ out_df = <<>>

InitMut ==
    /\ pc = "mut"
    /\ seq \in SeqsUpTo(SeqChars, MaxSeqLen)
    /\ alpha \in SeqsUpTo(AlphaChars, MaxAlpha) \cup {alphabet}
    /\ samples = <<>>
    /\ fa_table = <<>> /\ outfile = <<>> /\ ali = <<>>
    /\ n = 0 /\ L1 = "A" /\ L2 = "B" /\ numeric = <<>>
    /\ structure = <<>> /\ chain_list = <<>> /\ target_seq = <<>> /\ resis = <<>>
    /\ alns = <<>> /\ map_tables = <<>> /\ map_table = <<>>
    /\ exc = "none" /\ struct_df = <<>> /\ ranked = <<>> /\ out_df = <<>>

MaxRes == 3

Residue(name, id, icode, chain) ==
    [resname |-> name, id |-> id, icode |-> icode, chain |-> chain]

Residues ==
    { Residue(<<"M","E","T">>, 1, <<" ">>, "A"),
      Residue(<<"L","Y","S">>, 2, <<" ">>, "A"),
      Residue(<<"H","O","H">>, 3, <<" ">>, "A"),
      Residue(<<"m","e","t">>, 4, <<" ">>, "A"),
      Residue(<<"M","E","T">>, 1, <<" ">>, "B"),
      Residue(<<"L","Y","S">>, 1, <<"A">>, "B") }

ChainLists == { <<"A">>, <<"B">>, <<"A","B">>, <<"B","A">>, <<"A","A">> }

Targets == { <<>>, <<"M">>, <<"M","K">>, <<"K","M">> }

InitRemap ==
    /\ pc = "extract"
    /\ structure \in SeqsUpTo(Residues, MaxRes)
    /\ chain_list \in ChainLists
    /\ target_seq \in Targets
    /\ resis = <<>> /\ alns = <<>> /\ map_tables = <<>> /\ map_table = <<>>
    /\ exc = "none" /\ struct_df = <<>> /\ ranked = <<>> /\ out_df = <<>>
    /\ fa_table = <<>> /\ outfile = <<>> /\ ali = <<>>
    /\ n = 0 /\ L1 = "A" /\ L2 = "B" /\ numeric = <<>>
    /\ seq = <<>> /\ alpha = <<>> /\ samples = <<>>

(* The structures of the annotation runs: residues of the lookup table.  *)
MaxAnnRes == 2

AnnResidueSet == {r \in Residues : r.resname \in Keys3to1}

InitAnnot ==
    /\ pc = "extract"
    /\ structure \in SeqsUpTo(AnnResidueSet, MaxAnnRes)
    /\ chain_list \in ChainLists
    /\ target_seq \in Targets
    /\ resis = <<>> /\ alns = <<>> /\ map_tables = <<>> /\ map_table = <<>>
    /\ exc = "none" /\ struct_df = <<>> /\ ranked = <<>> /\ out_df = <<>>
    /\ fa_table = <<>> /\ outfile = <<>> /\ ali = <<>>
    /\ n = 0 /\ L1 = "A" /\ L2 = "B" /\ numeric = <<>>
    /\ seq = <<>> /\ alpha = <<>> /\ samples = <<>>

NextRemap == ExtractResidues \/ AlignChain \/ MergeResis

NextAnnot == ExtractResidues \/ AlignChain \/ MergeResis \/ RemapStructDf

SpecRemap == InitRemap /\ [][NextRemap]_vars

SpecAnnot == InitAnnot /\ [][NextAnnot]_vars

NextFasta == WriteFa \/ FaToPd
NextDecode == Decode
NextMut == MakeMutTable

SpecFasta == InitFasta /\ [][NextFasta]_vars
SpecDecode == InitDecode /\ [][NextDecode]_vars
SpecMut == InitMut /\ [][NextMut]_vars

----------------------------------------------------------------------------
(* C7: for every integer n and insertion letters L1 < L2,                  *)
(* decode(str(n)) < decode(str(n)+L1) < decode(str(n)+L2) < decode(str(n+1)). *)
C7_IndexOrdering ==
    pc = "decoded" =>
        /\ \A k \in 1..4 : numeric[k].err = "none"
        /\ numeric[1].val < numeric[2].val
        /\ numeric[2].val < numeric[3].val
        /\ numeric[3].val < numeric[4].val

----------------------------------------------------------------------------
(* C9: when every residue of seq occurs in the alphabet up to case and no  *)
(* two alphabet symbols are equal up to case, make_mut_table returns       *)
(* len(seq) * (len(alphabet) - 1) rows, each with mut # wt, ordered by     *)
(* 1-based position and, within a position, by alphabet order.             *)
Covered == \A k \in 1..Len(seq) : \E j \in 1..Len(alpha) : Upper(alpha[j]) = Upper(seq[k])

NoCaseCollision ==
    \A i, j \in 1..Len(alpha) : i # j => Upper(alpha[i]) # Upper(alpha[j])

AlphaRank(m) == CHOOSE j \in 1..Len(alpha) : Upper(alpha[j]) = m

C9_MutTable ==
    (pc = "mutdone" /\ Covered /\ NoCaseCollision) =>
        /\ Len(samples) = Len(seq) * (Len(alpha) - 1)
        /\ \A k \in 1..Len(samples) :
              /\ samples[k].mut # samples[k].wt
              /\ samples[k].i \in 1..Len(seq)
              /\ samples[k].wt = Upper(seq[samples[k].i])
              /\ \E j \in 1..Len(alpha) : Upper(alpha[j]) = samples[k].mut
        /\ \A k \in 1..(Len(samples) - 1) :
              \/ samples[k].i < samples[k + 1].i
              \/ /\ samples[k].i = samples[k + 1].i
                 /\ AlphaRank(samples[k].mut) < AlphaRank(samples[k + 1].mut)

C9_Witness ==
    /\ pc = "mutdone" /\ Covered /\ NoCaseCollision
    /\ Len(seq) >= 2 /\ Len(alpha) >= 2
    /\ \E k \in 1..Len(seq) : seq[k] # Upper(seq[k])
    /\ Len(samples) >= 2

----------------------------------------------------------------------------
(* C8 as stated: for any list of records whose fields hold no '>', reading *)
(* back the file written by write_fa yields the same records in the same   *)
(* order (the empty list and headers with trailing whitespace included).   *)
NoMarker(s) == ">" \notin Range(s)

C8_RoundTripAsStated ==
    (pc = "read" /\ \A k \in 1..Len(fa_table) :
                        NoMarker(fa_table[k].header) /\ NoMarker(fa_table[k].Sequence))
        => ali = fa_table

(* C8 amended: the round trip holds for a non-empty list of records whose  *)
(* fields hold no '>' and no line break and do not end in whitespace, and  *)
(* whose sequences do not begin with ';'.                                  *)
CleanField(s) ==
    /\ NoMarker(s)
    /\ "\n" \notin Range(s) /\ "\r" \notin Range(s)
    /\ rstrip(s) = s

CleanTable ==
    /\ fa_table # <<>>
    /\ \A k \in 1..Len(fa_table) :
          /\ CleanField(fa_table[k].header)
          /\ CleanField(fa_table[k].Sequence)
          /\ ~startswith(fa_table[k].Sequence, ";")

C8_RoundTrip == (pc = "read" /\ CleanTable) => ali = fa_table

C8_Witness ==
    /\ pc = "read" /\ CleanTable
    /\ Len(fa_table) = 2
    /\ \E k \in 1..2 : fa_table[k].Sequence = <<>>
    /\ \E k \in 1..2 : startswith(fa_table[k].header, " ")
    /\ ali = fa_table

----------------------------------------------------------------------------
(* C1: the residue table holds only residues of requested chains, in file  *)
(* order, and within each chain pdb_i runs 1..k with no skip and no        *)
(* repeat, whatever the other chains and the skipped residues are.         *)
Extracted == pc # "extract" /\ exc \notin {"KeyError", "AttributeError"}

C1_ChainLocalIndex ==
    Extracted =>
        /\ \A k \in 1..Len(resis) :
              /\ resis[k].chain \in Range(chain_list)
              /\ resis[k].pdb_i = Cardinality({j \in 1..k : resis[j].chain = resis[k].chain})
              /\ structure[resis[k].ind + 1].chain = resis[k].chain
        /\ \A j, k \in 1..Len(resis) : j < k => resis[j].ind < resis[k].ind
        /\ Len(resis) = Cardinality({k \in 1..Len(structure) :
                                        /\ UpperStr(structure[k].resname) \in Keys3to1
                                        /\ structure[k].chain \in Range(chain_list)})

C1_Witness ==
    /\ Extracted
    /\ \E j, k \in 1..Len(resis) :
          /\ resis[j].chain = "B" /\ resis[k].chain = "A"
          /\ resis[k].pdb_i = 2 /\ resis[k].ind = 2

KnownUpper(r) == UpperStr(r.resname) \in Keys3to1

RECURSIVE KnownOnly(_)
KnownOnly(rs) ==
    IF rs = <<>> THEN <<>>
    ELSE (IF KnownUpper(Head(rs)) THEN <<Head(rs)>> ELSE <<>>) \o KnownOnly(Tail(rs))

Unindexed(rows) ==
    [k \in 1..Len(rows) |->
        [pdb_res |-> rows[k].pdb_res, pdb_position |-> rows[k].pdb_position,
         chain |-> rows[k].chain, pdb_i |-> rows[k].pdb_i]]

BothColumns(a) == Cardinality({c \in 1..Len(a[1]) : a[1][c] # "-" /\ a[2][c] # "-"})

RECURSIVE SumBoth(_)
SumBoth(as) == IF as = <<>> THEN 0 ELSE BothColumns(Head(as)) + SumBoth(Tail(as))

C2_NoGapRows ==
    pc = "returned" =>
        /\ \A k \in 1..Len(map_table) :
              map_table[k].pdb_i # NaN /\ map_table[k].target_i # NaN
        /\ Len(map_table) = SumBoth(alns)

C2_Witness ==
    /\ pc = "returned"
    /\ map_table # <<>>
    /\ \E p \in 1..Len(alns) : \E c, d \in 1..Len(alns[p][1]) :
          alns[p][1][c] = "-" /\ alns[p][2][d] = "-"

(* C5: when the pairwise alignment has no result, an empty correspondence  *)
(* table is returned and no error is raised.                               *)
C5_EmptyAlignmentReturnsEmpty == ~(pc = "raised" /\ exc = "IndexError")

(* C3: every annotation row of a requested chain is in the output, a row   *)
(* with no match in the correspondence table with null target fields; no   *)
(* row of another chain is.                                                *)
Matches(r) ==
    {m \in 1..Len(map_table) :
        /\ map_table[m].chain = r.chain
        /\ map_table[m].pdb_i = r.pdb_i
        /\ map_table[m].pdb_res = r.pdb_res}

OutRowsOf(a) == {o \in 1..Len(out_df) : out_df[o].ann = a}

C3_AnnotationRowsKept ==
    pc = "annotated" =>
        /\ \A k \in 1..Len(struct_df) :
              IF struct_df[k].chain \in Range(chain_list)
              THEN \E o \in OutRowsOf(struct_df[k].ann) :
                      /\ out_df[o].chain = struct_df[k].chain
                      /\ out_df[o].pdb_numbering = struct_df[k].i
                      /\ out_df[o].pdb_res = struct_df[k].wt
              ELSE OutRowsOf(struct_df[k].ann) = {}
        /\ \A k \in 1..Len(ranked) :
              Matches(ranked[k]) = {} =>
                  \A o \in OutRowsOf(ranked[k].ann) :
                      out_df[o].i = NaN /\ out_df[o].wt = "NaN"
        /\ \A o \in 1..Len(out_df) : out_df[o].chain \in Range(chain_list)

C3_Witness ==
    /\ pc = "annotated"
    /\ \E k \in 1..Len(ranked) :
          Matches(ranked[k]) = {} /\ OutRowsOf(ranked[k].ann) # {}
    /\ \E k \in 1..Len(ranked) : Matches(ranked[k]) # {}

(* C6: a join against a table with a repeated key is detected and raised;  *)
(* no table is returned in which an input row has been duplicated.         *)
C6_NoSilentDuplication ==
    pc = "annotated" =>
        \A k \in 1..Len(ranked) : Cardinality(OutRowsOf(ranked[k].ann)) <= 1

(* C10: the index given to an annotation row is its file-order rank within *)
(* its chain, also when the position field is not increasing in file order. *)
C10_FileOrderRank ==
    pc = "annotated" =>
        \A k \in 1..Len(ranked) :
            ranked[k].pdb_i = Cardinality({j \in 1..k : ranked[j].chain = ranked[k].chain})

====
